---- MODULE Spec2Model ----
(***************************************************************************)
(* Pixelcast front end (pixel-planet-frontend): the assessment response    *)
(* normalisation (api/client.py), the forecast charts and summary          *)
(* statistics (components/forecast_graphs.py), the geocoding lookup        *)
(* (api/geocoding.py) and the Streamlit script run with its Assess         *)
(* Activity handler (components/sidebar.py, app.py).                       *)
(*                                                                         *)
(* Python dictionaries with optional keys are records whose fields are     *)
(* "optional" sets: {} when the key is missing, {v} when it is present.    *)
(* A JSON value that may or may not be an object is [kind, d]: d is the    *)
(* dictionary when kind = "dict" and the empty dictionary otherwise.       *)
(* A call that may raise returns [status |-> "ok", value |-> v] or         *)
(* [status |-> "raise", exc |-> name].                                     *)
(***************************************************************************)
EXTENDS Integers, Sequences, FiniteSets, TLC

VARIABLES
    \* ---- response normalisation (api/client.py)
    result,          \* the raw JSON object handed to parse_assessment_response
    parsed,          \* what parse_assessment_response returned or raised
    parse_pc,        \* "input" before the call, "done" after it
    \* ---- forecast charts (components/forecast_graphs.py)
    chart_data,      \* the chart_data argument: [kind, d.forecasts]
    rendered,        \* what render_forecast_graphs put on the page
    summary,         \* what get_forecast_summary_stats returned
    \* ---- geocoding lookup (api/geocoding.py)
    geo_pc,          \* "idle", "request" (inside session.get), "returned"
    geo_call,        \* the call in progress or last made: [fn, query, limit]
    geo_attempts,    \* GET requests sent by the current call
    geo_response,    \* what the last GET attempt of the call came to: a
                     \* response, or the error it raised
    last_status,     \* GeocodingService.last_status (optional)
    last_error,      \* GeocodingService.last_error (optional)
    geo_ret,         \* what the call returned or raised
    \* ---- the script and the session (app.py, components/sidebar.py)
    app_pc,          \* "idle" between runs, "searching" inside
                     \* search_locations, "assessing" inside assess_activity
    selected_location,        \* st.session_state.selected_location (optional)
    location_search_results,  \* st.session_state.location_search_results
    last_query,      \* st.session_state.last_query (optional)
    widgets,         \* the values of the sidebar's input widgets
    clicked,         \* the Assess Activity button in the current run
    api_result,      \* st.session_state.api_result (optional)
    has_results,     \* st.session_state.has_results (missing is FALSE)
    sidebar_snapshot,  \* st.session_state.sidebar_snapshot (optional)
    page,            \* what the current run has put on the page
    run_posts,       \* POST requests sent by the current run
    payload,         \* the JSON body of the current run's POST
    debug            \* config.DEBUG

parseVars == <<result, parsed, parse_pc>>

chartVars == <<chart_data, rendered, summary>>

geoVars == <<geo_pc, geo_call, geo_attempts, geo_response, last_status,
             last_error, geo_ret>>

appVars == <<app_pc, selected_location, location_search_results, last_query,
             widgets, clicked, api_result, has_results, sidebar_snapshot,
             page, run_posts, payload, debug>>

vars == <<result, parsed, parse_pc, chart_data, rendered, summary, geo_pc,
          geo_call, geo_attempts, geo_response, last_status, last_error,
          geo_ret, app_pc, selected_location, location_search_results,
          last_query, widgets, clicked, api_result, has_results,
          sidebar_snapshot, page, run_posts, payload, debug>>

(***************************************************************************)
(* Generic helpers                                                         *)
(***************************************************************************)
Some(S) == CHOOSE v \in S : TRUE

\* dict.get(key, default) on an optional field
Get(field, default) == IF field = {} THEN default ELSE Some(field)

Opt(S) == {{}} \cup {{v} : v \in S}

SeqsUpTo(S, n) == UNION {[1..k -> S] : k \in 0..n}

Ok(v) == [status |-> "ok", value |-> v]

Raise(e) == [status |-> "raise", exc |-> e]

(***************************************************************************)
(* Bounds                                                                  *)
(***************************************************************************)
MaxListLen == 1

\* series in one chart_data and data points in one chart_data
MaxSeries == 1

MaxPoints == 2

(***************************************************************************)
(* The JSON response of the assessment API                                 *)
(***************************************************************************)
NoAssessment ==
    [suitable |-> {}, risk_level |-> {}, confidence |-> {}, concerns |-> {},
     recommendations |-> {}, alternative_times |-> {}]

NoLocation ==
    [name |-> {}, coordinates |-> {}, interpolation_used |-> {},
     confidence |-> {}, confidence_message |-> {}]

NoCoordinates == [lat |-> {}, lon |-> {}]

NoForecastSummary == [temperature |-> {}]

NoChartData == [forecasts |-> {}]

JDict(d) == [kind |-> "dict", d |-> d]

\* a value that is not an object: JSON null or a JSON list
JOther(k, empty) == [kind |-> k, d |-> empty]

AssessmentDicts ==
    [suitable : Opt(BOOLEAN), risk_level : Opt({"low"}),
     confidence : Opt({"high"}),
     concerns : Opt(SeqsUpTo({"rain"}, MaxListLen)),
     recommendations : Opt({<<"go early">>}),
     alternative_times : Opt({<<"tomorrow">>})]

CoordinateValues == {JDict([lat |-> {7}, lon |-> {125}])}

LocationDicts ==
    [name : Opt({"Mt. Apo"}), coordinates : Opt(CoordinateValues),
     interpolation_used : Opt(BOOLEAN), confidence : Opt({"high"}),
     confidence_message : Opt({"exact grid point"})]

ForecastSummaryValues ==
    {JDict(NoForecastSummary),
     JDict([temperature |-> {[min |-> 20, max |-> 25, avg |-> 22]}]),
     JOther("null", NoForecastSummary)}

ChartDataValues ==
    {JDict(NoChartData), JDict([forecasts |-> {<<>>}]),
     JOther("null", NoChartData)}

AssessmentValues ==
    {JDict(d) : d \in AssessmentDicts}
        \cup {JOther(k, NoAssessment) : k \in {"null", "list"}}

LocationValues ==
    {JDict(d) : d \in LocationDicts}
        \cup {JOther(k, NoLocation) : k \in {"null", "list"}}

Responses ==
    [assessment : Opt(AssessmentValues), location : Opt(LocationValues),
     forecast_summary : Opt(ForecastSummaryValues),
     chart_data : Opt(ChartDataValues)]

(***************************************************************************)
(* parse_assessment_response                                               *)
(***************************************************************************)
FlatKeys ==
    {"suitable", "risk_level", "confidence", "concerns", "recommendations",
     "alternative_times", "location_name", "coordinates",
     "interpolation_used", "location_confidence", "confidence_message",
     "forecast_summary", "chart_data", "raw"}

\* `{}`, the default of every result.get(..., {})
EmptyDictOf(empty) == JDict(empty)

\* x.get(...) exists only when x is a dict
HasGet(x) == x.kind = "dict"

\* a wrong default for a missing `suitable`
DefaultSuitableTrue == TRUE

\* the default of assessment.get('suitable', False)
DefaultSuitable == FALSE

parse_assessment_response(res) ==
    LET assessment == Get(res.assessment, EmptyDictOf(NoAssessment))
        location == Get(res.location, EmptyDictOf(NoLocation))
        forecast_summary ==
            Get(res.forecast_summary, EmptyDictOf(NoForecastSummary))
        chart == Get(res.chart_data, EmptyDictOf(NoChartData))
    IN  IF ~HasGet(assessment) \/ ~HasGet(location)
        THEN Raise("AttributeError")
        ELSE Ok([suitable |-> Get(assessment.d.suitable, DefaultSuitable),
                 risk_level |-> Get(assessment.d.risk_level, "unknown"),
                 confidence |-> Get(assessment.d.confidence, "unknown"),
                 concerns |-> Get(assessment.d.concerns, <<>>),
                 recommendations |-> Get(assessment.d.recommendations, <<>>),
                 alternative_times |->
                     Get(assessment.d.alternative_times, <<>>),
                 location_name |-> Get(location.d.name, "Unknown"),
                 coordinates |->
                     Get(location.d.coordinates, EmptyDictOf(NoCoordinates)),
                 interpolation_used |->
                     Get(location.d.interpolation_used, FALSE),
                 location_confidence |->
                     Get(location.d.confidence, "unknown"),
                 confidence_message |->
                     Get(location.d.confidence_message, ""),
                 forecast_summary |-> forecast_summary,
                 chart_data |-> chart,
                 raw |-> res])

NotCalled == [status |-> "none"]

(***************************************************************************)
(* Forecast series (chart_data.forecasts)                                  *)
(*                                                                         *)
(* forecasts is a dict in insertion order: a sequence of entries           *)
(* [param, kind, cols, points].  kind = "list" when the value is a list of *)
(* data points; cols are the keys the data points carry (the columns of    *)
(* the DataFrame built from them); a field outside cols is not in the      *)
(* source and has a fixed filler.  Values are whole numbers.               *)
(***************************************************************************)
Params == {"precipitation", "humidity", "wind", "temperature"}

TimestampStrings == {"2025-06-01T09:00", "2025-06-01T10:00", "soon"}

Values == {-1, 2}

LowerValues == {-2}

UpperValues == {3}

ColumnSets ==
    {{"timestamp", "value"}, {"timestamp", "value", "lower", "upper"},
     {"value"}, {"timestamp"}}

PointsOf(cols) ==
    [timestamp : IF "timestamp" \in cols THEN TimestampStrings
                 ELSE {"2025-06-01T09:00"},
     value : IF "value" \in cols THEN Values ELSE {0},
     lower : IF "lower" \in cols THEN LowerValues ELSE {0},
     upper : IF "upper" \in cols THEN UpperValues ELSE {0}]

\* pd.to_datetime on one timestamp string: hours after midnight, or a
\* parse error
to_datetime(s) ==
    CASE s = "2025-06-01T09:00" -> Ok(9)
      [] s = "2025-06-01T10:00" -> Ok(10)
      [] OTHER -> Raise("ValueError")

Reverse(q) == [i \in 1..Len(q) |-> q[Len(q) + 1 - i]]

Column(points, c) == [i \in 1..Len(points) |-> points[i][c]]

SeqMin(q) == CHOOSE m \in {q[i] : i \in 1..Len(q)} :
                 \A i \in 1..Len(q) : m <= q[i]

SeqMax(q) == CHOOSE m \in {q[i] : i \in 1..Len(q)} :
                 \A i \in 1..Len(q) : m >= q[i]

RECURSIVE SeqSum(_)
SeqSum(q) == IF q = <<>> THEN 0 ELSE Head(q) + SeqSum(Tail(q))

\* chart_data.get('forecasts', {}) if isinstance(chart_data, dict) else {}
ForecastsOf(cd) ==
    IF cd.kind = "dict" THEN Get(cd.d.forecasts, <<>>) ELSE <<>>

RECURSIVE FilterSeq(_, _)
FilterSeq(q, keep) ==
    IF q = <<>> THEN <<>>
    ELSE IF Head(q).param \in keep
         THEN <<Head(q)>> \o FilterSeq(Tail(q), keep)
         ELSE FilterSeq(Tail(q), keep)

\* `if selected_metrics:` keeps the entries whose key is selected; None and
\* the empty list select everything
SelectForecasts(fs, selected_metrics) ==
    IF selected_metrics = {} \/ Some(selected_metrics) = {} THEN fs
    ELSE FilterSeq(fs, Some(selected_metrics))

\* `if not data_points or not isinstance(data_points, list): continue`
SkippedSeries(e) == e.kind # "list" \/ e.points = <<>>

\* a frame that loses the rows whose value is negative
DataFrameDropNegative(points) ==
    LET RECURSIVE Keep(_)
        Keep(q) == IF q = <<>> THEN <<>>
                   ELSE IF Head(q).value < 0 THEN Keep(Tail(q))
                   ELSE <<Head(q)>> \o Keep(Tail(q))
    IN  Keep(points)

\* df = pd.DataFrame(data_points): one row per data point, in order
DataFrame(points) == points

\* Plotly's automatic axis range (the layout sets none): it encloses every
\* y of every trace, widened by a margin; tenths of a unit.  An axis without
\* data shows Plotly's default range.
AutoRange(ys, pad) ==
    IF ys = <<>> THEN <<-10, 60>>
    ELSE <<10 * SeqMin(ys) - pad, 10 * SeqMax(ys) + pad>>

\* one pass of the loop body of render_forecast_graphs:
\* "skip" (continue), "warn" (st.warning and continue) or the figure
ChartOf(e, pad) ==
    IF SkippedSeries(e) THEN [out |-> "skip"]
    ELSE IF "timestamp" \notin e.cols \/ "value" \notin e.cols
    THEN [out |-> "skip"]
    ELSE LET df == DataFrame(e.points)
         IN  IF \E i \in 1..Len(df) :
                    to_datetime(df[i].timestamp).status = "raise"
             THEN [out |-> "warn", param |-> e.param]
             ELSE LET x == [i \in 1..Len(df) |->
                               to_datetime(df[i].timestamp).value]
                      y == Column(df, "value")
                      hasBand == "lower" \in e.cols /\ "upper" \in e.cols
                      bandY == Column(df, "upper")
                                   \o Reverse(Column(df, "lower"))
                  IN  [out |-> "chart",
                       param |-> e.param,
                       x |-> x,
                       y |-> y,
                       band |-> IF hasBand
                                THEN {[x |-> x \o Reverse(x), y |-> bandY]}
                                ELSE {},
                       yaxis_range |-> {},
                       shown_range |->
                           AutoRange(IF hasBand THEN bandY \o y ELSE y,
                                     pad)]

RECURSIVE Outcomes(_, _, _)
Outcomes(fs, pad, kind) ==
    IF fs = <<>> THEN <<>>
    ELSE LET c == ChartOf(Head(fs), pad)
         IN  IF c.out = kind THEN <<c>> \o Outcomes(Tail(fs), pad, kind)
             ELSE Outcomes(Tail(fs), pad, kind)

\* render_forecast_graphs: the figures given to st.plotly_chart, in order,
\* and the warnings shown
render_forecast_graphs(cd, selected_metrics, pad) ==
    LET forecasts == ForecastsOf(cd)
    IN  IF forecasts = <<>>
        THEN [status |-> "ok", selected |-> selected_metrics,
              charts |-> <<>>,
              warnings |-> <<"No chart data available">>]
        ELSE LET fs == SelectForecasts(forecasts, selected_metrics)
             IN  [status |-> "ok", selected |-> selected_metrics,
                  charts |-> Outcomes(fs, pad, "chart"),
                  warnings |->
                      [i \in 1..Len(Outcomes(fs, pad, "warn")) |->
                          Outcomes(fs, pad, "warn")[i].param]]

\* the entries get_forecast_summary_stats summarises
Summarised(fs) ==
    {i \in 1..Len(fs) : ~SkippedSeries(fs[i]) /\ "value" \in fs[i].cols}

\* min, max, mean and (sample) standard deviation of df['value']; the mean
\* is the fraction sum/n and std^2 the fraction var_num/var_den (NaN when
\* var_den = 0)
SeriesStats(points) ==
    LET v == Column(points, "value")
        n == Len(v)
        sq == [i \in 1..n |-> v[i] * v[i]]
    IN  [min |-> SeqMin(v), max |-> SeqMax(v),
         avg |-> [num |-> SeqSum(v), den |-> n],
         std |-> [var_num |-> n * SeqSum(sq) - SeqSum(v) * SeqSum(v),
                  var_den |-> n * (n - 1)]]

\* get_forecast_summary_stats: param -> stats (a later entry of the same
\* key cannot occur in a dict)
get_forecast_summary_stats(cd) ==
    LET fs == ForecastsOf(cd)
    IN  Ok([p \in {fs[i].param : i \in Summarised(fs)} |->
               SeriesStats(fs[CHOOSE i \in Summarised(fs) :
                               fs[i].param = p].points)])

SelectedMetricsValues ==
    {{}, {{"temperature", "precipitation", "wind", "humidity"}},
     {{"temperature"}}}

\* margins of the automatic axis range, in tenths
AutoRangePads == {0, 1}

TotalPoints(fs) == SeqSum([i \in 1..Len(fs) |-> Len(fs[i].points)])

\* the response has not been used yet (a response is rendered or summarised
\* once)
ChartInputOpen == rendered = NotCalled /\ summary = NotCalled

(***************************************************************************)
(* Geocoding lookup (api/geocoding.py)                                     *)
(***************************************************************************)

\* Retry(total=3, ...)
RetryTotal == 3

\* Retry(status_forcelist=[429, 500, 502, 503, 504])
StatusForcelist == {429, 500, 502, 503, 504}

HttpStatuses == {200, 403, 404, 429, 500, 503}

NetworkErrors == {"ConnectTimeout", "ReadTimeout", "ConnectionError"}

\* results of the geocoder in one body
MaxResults == 2

\* one entry of the geocoder's JSON list: an object, or something else
GeoEntries ==
    [kind : {"dict"}, display_name : {{"Mt. Apo"}},
     lat : Opt({"7", "0", "north"}), lon : {{"125"}}, place_id : {{42}}]
        \cup {[kind |-> "str", display_name |-> {}, lat |-> {}, lon |-> {},
               place_id |-> {}]}

\* the body of a response: no JSON, a JSON list of entries, or a JSON object
GeoBodies ==
    {[kind |-> "not_json", entries |-> <<>>],
     [kind |-> "dict", entries |-> <<>>]}
        \cup {[kind |-> "list", entries |-> es] :
                 es \in SeqsUpTo(GeoEntries, MaxResults)}

NoBody == [kind |-> "not_json", entries |-> <<>>]

\* what one HTTP GET attempt comes to
AttemptOutcomes ==
    {[kind |-> "error", exc |-> x, status |-> 0, body |-> NoBody] :
        x \in NetworkErrors}
        \cup {[kind |-> "response", exc |-> "", status |-> s,
               body |-> NoBody] : s \in HttpStatuses \ {200}}
        \cup {[kind |-> "response", exc |-> "", status |-> 200, body |-> b] :
                 b \in GeoBodies}

NoResponse == [kind |-> "none", exc |-> "", status |-> 0, body |-> NoBody]

\* float(x) of a string
ParseFloat(s) ==
    CASE s = "7" -> Ok(7)
      [] s = "0" -> Ok(0)
      [] s = "125" -> Ok(125)
      [] OTHER -> Raise("ValueError")

\* str(x) of a place id
StrOf(n) == IF n = 42 THEN "42" ELSE "?"

\* Location(display_name=..., latitude=..., longitude=..., place_id=...)
LocationOf(entry) ==
    IF entry.kind # "dict" THEN Raise("AttributeError")
    ELSE LET lat == IF entry.lat = {} THEN Ok(0)
                    ELSE ParseFloat(Some(entry.lat))
             lon == IF entry.lon = {} THEN Ok(0)
                    ELSE ParseFloat(Some(entry.lon))
         IN  IF lat.status = "raise" THEN lat
             ELSE IF lon.status = "raise" THEN lon
             ELSE Ok([display_name |-> Get(entry.display_name, ""),
                      latitude |-> lat.value,
                      longitude |-> lon.value,
                      place_id |-> IF entry.place_id = {} THEN ""
                                   ELSE StrOf(Some(entry.place_id))])

\* the loop over results: the locations, or the first exception
LocationsOf(entries) ==
    IF \E i \in 1..Len(entries) : LocationOf(entries[i]).status = "raise"
    THEN LocationOf(entries[CHOOSE i \in 1..Len(entries) :
             /\ LocationOf(entries[i]).status = "raise"
             /\ \A j \in 1..(i - 1) :
                    LocationOf(entries[j]).status = "ok"])
    ELSE Ok([i \in 1..Len(entries) |-> LocationOf(entries[i]).value])

\* response.raise_for_status()
RaisesForStatus(status) == status >= 400 /\ status < 600

\* the try block from the response on: the returned list or the exception
\* raised, with the new last_status and last_error
TryBody(resp, err0) ==
    IF resp.status = 403
    THEN [ret |-> Ok(<<>>), last_status |-> {resp.status},
          last_error |-> {"Geocoding service blocked (403)."}]
    ELSE IF resp.status = 429
    THEN [ret |-> Ok(<<>>), last_status |-> {resp.status},
          last_error |-> {"Rate limited by geocoding service (429). Please wait and try again."}]
    ELSE LET ret ==
                 IF RaisesForStatus(resp.status) THEN Raise("HTTPError")
                 ELSE IF resp.body.kind = "not_json"
                 THEN Raise("JSONDecodeError")
                 ELSE IF resp.body.kind = "dict"
                 THEN Raise("AttributeError")
                 ELSE LocationsOf(resp.body.entries)
         IN  [ret |-> ret, last_status |-> {resp.status},
              last_error |-> err0]

\* an except clause that catches the errors of the requests library only
CaughtRequestsErrorsOnly(exc) ==
    exc \in NetworkErrors \cup {"HTTPError", "JSONDecodeError"}

\* `except Exception as e`
Caught(exc) == TRUE

\* the except clause applied to what the try block did
ExceptClause(t) ==
    IF t.ret.status = "raise" /\ Caught(t.ret.exc)
    THEN [ret |-> Ok(<<>>), last_status |-> t.last_status,
          last_error |-> {t.ret.exc}]
    ELSE t

\* search_locations without soft failures: statuses of 400 and above raise
\* and nothing is caught
AfterGetStrict(got, status0, err0) ==
    IF got.kind = "error"
    THEN [ret |-> Raise(got.exc), last_status |-> status0,
          last_error |-> err0]
    ELSE IF RaisesForStatus(got.status)
    THEN [ret |-> Raise("HTTPError"), last_status |-> {got.status},
          last_error |-> err0]
    ELSE ExceptClause(TryBody(got, err0))

\* search_locations from the return of session.get on: got is the final
\* response or the error session.get raised
AfterGet(got, status0, err0) ==
    IF got.kind = "error"
    THEN ExceptClause([ret |-> Raise(got.exc), last_status |-> status0,
                       last_error |-> err0])
    ELSE ExceptClause(TryBody(got, err0))

\* what the called function returns from the list search_locations gives it
\* (get_location: locations[0] if locations else None)
ReturnOf(fn, ret) ==
    IF fn = "get_location" /\ ret.status = "ok"
    THEN Ok(IF ret.value = <<>> THEN {} ELSE {ret.value[1]})
    ELSE ret

\* a retry configuration whose status_forcelist also holds 403
RetriedAlsoOn403(outcome, attemptsBefore) ==
    /\ outcome.kind = "error" \/ outcome.status \in StatusForcelist \cup {403}
    /\ attemptsBefore < RetryTotal

\* the adapter sends the request again after this attempt
Retried(outcome, attemptsBefore) ==
    /\ outcome.kind = "error" \/ outcome.status \in StatusForcelist
    /\ attemptsBefore < RetryTotal

GeoQueries == {"", "M", "Mt", "Mt. Apo"}

(***************************************************************************)
(* The Streamlit script (app.py) and its sidebar (components/sidebar.py)   *)
(*                                                                         *)
(* Dates are days from today, times are hours, a date-time is hours from   *)
(* today's midnight.  An activity label is the sequence of its words.      *)
(***************************************************************************)

\* the latest date the user picks
MaxDay == 1

Hours == {9, 17}

\* activity_options: the emoji, then the words of the label
ActivityOptions == {<<"(boot)", "Hiking">>, <<"(beach)", "Beach", "day">>}

CustomActivities == {<<>>, <<"Wedding">>}

AppQueries == {"", "M", "Mt", "Apo"}

\* datetime.combine(date, time)
Combine(date, hour) == 24 * date + hour

\* activity_type.split(" ", 1)[1] if " " in activity_type else activity_type
ActivityValue(option) == IF Len(option) > 1 THEN Tail(option) ELSE option

\* location_map[selected_key]: the dict comprehension keeps the last
\* location of a display name
LocationMap(locations, name) ==
    locations[CHOOSE i \in 1..Len(locations) :
                  /\ locations[i].display_name = name
                  /\ \A j \in (i + 1)..Len(locations) :
                         locations[j].display_name # name]

OptionNames(locations) ==
    {locations[i].display_name : i \in 1..Len(locations)}

\* the widgets after the very first script run
DefaultWidgets ==
    [location_search |-> "", start_date |-> 0, start_time |-> 9,
     end_clamped |-> FALSE, end_date |-> 1, end_time |-> 17,
     activity_select |-> <<"(boot)", "Hiking">>, custom_activity |-> <<>>]

\* an end date that keeps the earlier selection
KeepPrevious(a, b) == a

IntMax(a, b) == IF a >= b THEN a ELSE b

\* a sidebar that searches in every run
QueryChangedAlways(lq, q) == TRUE

\* 'last_query' not in st.session_state or
\* st.session_state.last_query != location_query
QueryChanged(lq, q) == lq = {} \/ Some(lq) # q

\* the location section of render_sidebar up to the search: s is
\* [sel, res, lq, q], change the Change Location button.  `search` says
\* that search_locations has to be called, `rerun` that st.rerun() ended
\* the run.
LocationSection(s, change) ==
    IF s.sel # {}
    THEN IF change
         THEN [sel |-> {}, res |-> <<>>, lq |-> s.lq, q |-> s.q,
               search |-> FALSE, rerun |-> TRUE]
         ELSE [sel |-> s.sel, res |-> s.res, lq |-> s.lq, q |-> s.q,
               search |-> FALSE, rerun |-> FALSE]
    ELSE IF s.q # "" /\ Len(s.q) >= 2
    THEN [sel |-> s.sel, res |-> s.res, lq |-> s.lq, q |-> s.q,
          search |-> QueryChanged(s.lq, s.q), rerun |-> FALSE]
    ELSE [sel |-> s.sel, res |-> <<>>, lq |-> s.lq, q |-> s.q,
          search |-> FALSE, rerun |-> FALSE]

\* the location section from `locations` on (a query of 2 characters or
\* more): key is the selectbox's choice, {} for "Select a location..."
AfterLocations(s, locations, key) ==
    IF locations # <<>> /\ key # {} /\ Some(key) \in OptionNames(locations)
    THEN [sel |-> {LocationMap(locations, Some(key))}, res |-> <<>>,
          lq |-> {}, q |-> s.q, search |-> FALSE, rerun |-> TRUE]
    ELSE [sel |-> s.sel, res |-> s.res, lq |-> s.lq, q |-> s.q,
          search |-> FALSE, rerun |-> FALSE]

\* the whole location section when no search is needed
LocationSectionNoSearch(s, key, change) ==
    LET a == LocationSection(s, change)
    IN  IF a.rerun \/ s.sel # {} \/ ~(s.q # "" /\ Len(s.q) >= 2) THEN a
        ELSE AfterLocations(a, a.res, key)

\* "No locations found. Try a different search term."
NoLocationsWarning(s) ==
    s.sel = {} /\ s.q # "" /\ Len(s.q) >= 2 /\ s.res = <<>>

\* the dict render_sidebar returns
SidebarData(sel, w, click) ==
    [location |->
        [name |-> IF sel = {} THEN {} ELSE {Some(sel).display_name},
         latitude |-> IF sel = {} THEN {} ELSE {Some(sel).latitude},
         longitude |-> IF sel = {} THEN {} ELSE {Some(sel).longitude}],
     start_datetime |-> Combine(w.start_date, w.start_time),
     end_datetime |-> Combine(w.end_date, w.end_time),
     activity |-> IF w.custom_activity # <<>> THEN w.custom_activity
                  ELSE ActivityValue(w.activity_select),
     metrics |-> [temperature |-> TRUE, precipitation |-> TRUE,
                  wind_speed |-> TRUE, humidity |-> TRUE],
     assess_clicked |-> click]

\* not sidebar_data['location']['name'] or
\* not sidebar_data['location']['latitude']
NoLocationSelected(data) ==
    LET name == data.location.name
        latitude == data.location.latitude
    IN  \/ name = {}
        \/ Some(name) = ""
        \/ latitude = {}
        \/ Some(latitude) = 0

\* a check that lets an end equal to the start through
EndBeforeStart(data) == data.end_datetime < data.start_datetime

\* end_datetime <= start_datetime
EndNotAfterStart(data) == data.end_datetime <= data.start_datetime

\* what the handler of the Assess Activity button does before the request:
\* "none" (not clicked), an error with st.stop(), or "post"
Validate(data) ==
    IF ~data.assess_clicked THEN "none"
    ELSE IF NoLocationSelected(data) THEN "no_location"
    ELSE IF EndNotAfterStart(data) THEN "end_not_after_start"
    ELSE "post"

\* no POST has been sent
NoPayload == [sent |-> FALSE]

\* datetime.isoformat() cut after the date
isoformat_date(dt) == <<dt \div 24>>

\* datetime.isoformat(): the date, "T", the time of day
isoformat(dt) == <<dt \div 24, "T", dt % 24>>

\* the payload assess_activity builds from its arguments
assess_activity(location_name, latitude, longitude, start_time, end_time, activity_type) ==
    [sent |-> TRUE,
     json |-> [location_name |-> location_name,
               latitude |-> latitude,
               longitude |-> longitude,
               start_time |-> isoformat(start_time),
               end_time |-> isoformat(end_time),
               activity_type |-> activity_type]]

\* the handler's call of assess_activity with the data of the sidebar
HandlerPayload(data) ==
    assess_activity(Some(data.location.name), Some(data.location.latitude),
                    Some(data.location.longitude), data.start_datetime,
                    data.end_datetime, data.activity)

\* what a run has put on the page
BlankPage ==
    [error |-> "", exc |-> "", details |-> FALSE, results |-> FALSE,
     warning |-> FALSE]

\* the responses of the assessment API the script is run against
AppResponses ==
    {[assessment |-> {JDict([suitable |-> {TRUE}, risk_level |-> {"low"},
                             confidence |-> {"high"},
                             concerns |-> {<<"rain">>},
                             recommendations |-> {<<"go early">>},
                             alternative_times |-> {<<"tomorrow">>}])},
      location |-> {}, forecast_summary |-> {}, chart_data |-> {}],
     [assessment |-> {JOther("null", NoAssessment)}, location |-> {},
      forecast_summary |-> {}, chart_data |-> {}]}

\* a retry adapter like the geocoder's on the client's session
PostRetriedLikeGet(outcome, posts) ==
    outcome.status = "raise" /\ posts <= RetryTotal

\* self.session = requests.Session(): the default adapter has max_retries 0,
\* so no outcome of the POST makes it send the request again
PostRetried(outcome, posts) == FALSE

\* what session.post / raise_for_status / response.json() come to
AssessOutcomes ==
    {Ok(r) : r \in AppResponses}
        \cup {Raise(x) : x \in {"Timeout", "ConnectTimeout", "HTTPError",
                                 "ConnectionError"}}

\* requests.exceptions: ConnectTimeout is a ConnectionError and a Timeout,
\* and all of them are RequestExceptions
IsTimeout(exc) == exc \in {"Timeout", "ConnectTimeout"}

IsRequestException(exc) ==
    exc \in {"Timeout", "ConnectTimeout", "HTTPError", "ConnectionError"}

\* subclasses of Exception (not of BaseException only)
IsException(exc) ==
    IsRequestException(exc) \/ exc \in {"AttributeError", "TypeError"}

\* e.response is not None: raise_for_status() raises HTTPError(response=self)
HasResponse(exc) == exc = "HTTPError"

\* except clauses in which RequestException comes before Timeout
HandlerErrorRequestFirst(exc) ==
    IF IsRequestException(exc) THEN "api_error"
    ELSE IF IsTimeout(exc) THEN "timeout"
    ELSE IF IsException(exc) THEN "unexpected"
    ELSE "uncaught"

\* the except clauses of the handler, in their order: the st.error shown,
\* or "uncaught" when no clause takes the exception
HandlerError(exc) ==
    IF IsTimeout(exc) THEN "timeout"
    ELSE IF IsRequestException(exc) THEN "api_error"
    ELSE IF IsException(exc) THEN "unexpected"
    ELSE "uncaught"

\* st.exception(e) whatever the configuration says
ShowsExceptionAlways(dbg) == TRUE

\* if config.DEBUG: st.exception(e)
ShowsException(dbg) == dbg

\* what the except clause shows besides st.error: the expander with
\* e.response.text, or st.exception(e)
ErrorDetails(exc, dbg) ==
    IF IsTimeout(exc) THEN FALSE
    ELSE IF IsRequestException(exc) THEN HasResponse(exc)
    ELSE IF IsException(exc) THEN ShowsException(dbg)
    ELSE FALSE

\* the geocoder as the script is run against it: it answers at once with
\* at most one place
AppAttemptOutcomes ==
    {o \in AttemptOutcomes :
        /\ o.kind = "response"
        /\ o.status = 200
        /\ o.body.kind = "list"
        /\ Len(o.body.entries) <= 1
        /\ \A i \in 1..Len(o.body.entries) :
               /\ o.body.entries[i].kind = "dict"
               /\ o.body.entries[i].display_name # {}
               /\ o.body.entries[i].lat \in {{"7"}, {"0"}}}

\* d.get(key, default) of a JSON object the response structure gives the
\* keys of: a key outside the structure is missing
DictGet(d, key, default) ==
    IF key \in DOMAIN d /\ d[key] # {} THEN Some(d[key]) ELSE default

\* x or y, for strings and lists
OrElse(x, y) == IF x = "" \/ x = <<>> THEN y ELSE x

\* what the results section hands to render_ai_analysis_card: data is
\* st.session_state.api_result
CardArguments(data) ==
    LET raw == data.raw
        assessment == DictGet(raw, "assessment", EmptyDictOf(NoAssessment)).d
        alt_times == DictGet(raw, "alternative_times", <<>>)
        summary_text == DictGet(raw, "summary", "")
    IN  [suitable |-> DictGet(assessment, "suitable", FALSE),
         risk_level |-> DictGet(assessment, "risk_level", "UNKNOWN"),
         primary_concerns |->
             OrElse(DictGet(assessment, "primary_concerns", <<>>), <<>>),
         recommendation |->
             OrElse(OrElse(DictGet(assessment, "recommendation", ""),
                           summary_text), ""),
         alternatives |-> alt_times]

\* the texts render_ai_analysis_card puts into the card: the sections for
\* the recommendation, the concerns and the alternative windows are left
\* out when their argument is empty
render_ai_analysis_card(args) ==
    [recommendation |->
         IF args.recommendation # "" THEN {args.recommendation} ELSE {},
     concerns |->
         {args.primary_concerns[i] : i \in 1..Len(args.primary_concerns)},
     alternatives |->
         {args.alternatives[i] : i \in 1..Len(args.alternatives)},
     suitable |-> args.suitable,
     risk_level |-> args.risk_level]

\* `if st.session_state.get('has_results') and
\*     st.session_state.get('api_result')`
ShowsResults(has, api) == has /\ api # {}

(***************************************************************************)
(* States in which a part of the program is not in use                     *)
(***************************************************************************)
\* no response is being normalised
ParseIdle ==
    /\ result = [assessment |-> {}, location |-> {},
                 forecast_summary |-> {}, chart_data |-> {}]
    /\ parsed = NotCalled
    /\ parse_pc = "input"

\* the script is not running: a session before its first interaction
AppIdle ==
    /\ app_pc = "idle"
    /\ selected_location = {}
    /\ location_search_results = <<>>
    /\ last_query = {}
    /\ widgets = DefaultWidgets
    /\ clicked = FALSE
    /\ api_result = {}
    /\ has_results = FALSE
    /\ sidebar_snapshot = {}
    /\ page = BlankPage
    /\ run_posts = 0
    /\ payload = NoPayload
    /\ debug = FALSE

\* the charts are not in use
ChartIdle ==
    /\ chart_data = JOther("null", NoChartData)
    /\ rendered = NotCalled
    /\ summary = NotCalled

\* the service after GeocodingService.__init__
GeoIdle ==
    /\ geo_pc = "idle"
    /\ geo_call = [fn |-> "", query |-> "", limit |-> 0]
    /\ geo_attempts = 0
    /\ geo_response = NoResponse
    /\ last_status = {}
    /\ last_error = {}
    /\ geo_ret = NotCalled

(***************************************************************************)
(* Response normalisation: parse_assessment_response applied to a response *)
(***************************************************************************)
ParseInit ==
    /\ result \in Responses
    /\ parsed = NotCalled
    /\ parse_pc = "input"
    /\ ChartIdle
    /\ GeoIdle
    /\ AppIdle

\* the caller hands the response to parse_assessment_response
Parse ==
    /\ parse_pc = "input"
    /\ parsed' = parse_assessment_response(result)
    /\ parse_pc' = "done"
    /\ UNCHANGED <<result, chartVars, geoVars, appVars>>

ParseNext == Parse

SpecParse == ParseInit /\ [][ParseNext]_vars

(***************************************************************************)
(* Charts: the API fills chart_data, then it is rendered or summarised     *)
(***************************************************************************)
ChartInit ==
    /\ chart_data \in {JOther("null", NoChartData), JDict(NoChartData),
                       JDict([forecasts |-> {<<>>}])}
    /\ rendered = NotCalled
    /\ summary = NotCalled
    /\ ParseIdle
    /\ GeoIdle
    /\ AppIdle

\* the API's response carries one more forecast series: an empty list, or a
\* value that is no list
ApiAddSeries(p, kind) ==
    /\ ChartInputOpen
    /\ chart_data.kind = "dict"
    /\ chart_data.d.forecasts # {}
    /\ LET fs == Some(chart_data.d.forecasts)
       IN  /\ Len(fs) < MaxSeries
           /\ \A i \in 1..Len(fs) : fs[i].param # p
           /\ chart_data' =
                  JDict([forecasts |->
                      {Append(fs, [param |-> p, kind |-> kind, cols |-> {},
                                   points |-> <<>>])}])
    /\ UNCHANGED <<rendered, summary, parseVars, geoVars, appVars>>

\* the API's response carries one more data point in series i; the points of
\* a series carry the same keys
ApiAddPoint(i, cols, pt) ==
    /\ ChartInputOpen
    /\ chart_data.kind = "dict"
    /\ chart_data.d.forecasts # {}
    /\ LET fs == Some(chart_data.d.forecasts)
       IN  /\ i \in 1..Len(fs)
           /\ fs[i].kind = "list"
           /\ fs[i].points = <<>> \/ fs[i].cols = cols
           /\ TotalPoints(fs) < MaxPoints
           /\ pt \in PointsOf(cols)
           /\ chart_data' =
                  JDict([forecasts |->
                      {[fs EXCEPT ![i].points = Append(@, pt),
                                  ![i].cols = cols]}])
    /\ UNCHANGED <<rendered, summary, parseVars, geoVars, appVars>>

\* render_forecast_graphs(chart_data, selected_metrics)
Render(selected_metrics, pad) ==
    /\ ChartInputOpen
    /\ rendered' = render_forecast_graphs(chart_data, selected_metrics, pad)
    /\ UNCHANGED <<chart_data, summary, parseVars, geoVars, appVars>>

\* get_forecast_summary_stats(chart_data)
SummaryStats ==
    /\ ChartInputOpen
    /\ summary' = get_forecast_summary_stats(chart_data)
    /\ UNCHANGED <<chart_data, rendered, parseVars, geoVars, appVars>>

ChartNext ==
    \/ \E p \in Params, kind \in {"list", "other"} : ApiAddSeries(p, kind)
    \/ \E i \in 1..MaxSeries, cols \in ColumnSets :
           \E pt \in PointsOf(cols) : ApiAddPoint(i, cols, pt)
    \/ \E sel \in SelectedMetricsValues, pad \in AutoRangePads :
           Render(sel, pad)
    \/ SummaryStats

SpecChart == ChartInit /\ [][ChartNext]_vars

(***************************************************************************)
(* Geocoding: calls of search_locations and get_location                   *)
(***************************************************************************)
GeoInit ==
    /\ GeoIdle
    /\ ChartIdle
    /\ ParseIdle
    /\ AppIdle

\* search_locations(query, limit) up to the first request: a short query
\* returns [] at once
Begin(fn, query, limit) ==
    /\ geo_pc \in {"idle", "returned"}
    /\ geo_call' = [fn |-> fn, query |-> query, limit |-> limit]
    /\ geo_attempts' = 0
    /\ geo_response' = NoResponse
    /\ IF query = "" \/ Len(query) < 2
       THEN /\ geo_pc' = "returned"
            /\ geo_ret' = ReturnOf(fn, Ok(<<>>))
       ELSE /\ geo_pc' = "request"
            /\ geo_ret' = NotCalled
    /\ UNCHANGED <<last_status, last_error>>

\* a caller calls search_locations(query)
SearchLocations(query) ==
    /\ Begin("search_locations", query, 5)
    /\ UNCHANGED <<parseVars, chartVars, appVars>>

\* a caller calls get_location(display_name)
GetLocation(display_name) ==
    /\ Begin("get_location", display_name, 1)
    /\ UNCHANGED <<parseVars, chartVars, appVars>>

\* one GET of session.get: the adapter retries it, or session.get returns
\* (or raises) and search_locations runs to its return
Attempt(outcome) ==
    /\ geo_pc = "request"
    /\ geo_attempts' = geo_attempts + 1
    /\ geo_response' = outcome
    /\ IF Retried(outcome, geo_attempts)
       THEN UNCHANGED <<geo_pc, last_status, last_error, geo_ret>>
       ELSE LET a == AfterGet(outcome, last_status, last_error)
            IN  /\ geo_pc' = "returned"
                /\ last_status' = a.last_status
                /\ last_error' = a.last_error
                /\ geo_ret' = ReturnOf(geo_call.fn, a.ret)
    /\ UNCHANGED geo_call

GeoAttempt(outcome) ==
    /\ Attempt(outcome)
    /\ UNCHANGED <<parseVars, chartVars, appVars>>

GeoNext ==
    \/ \E q \in GeoQueries : SearchLocations(q)
    \/ \E q \in GeoQueries : GetLocation(q)
    \/ \E o \in AttemptOutcomes : GeoAttempt(o)

SpecGeo == GeoInit /\ [][GeoNext]_vars

\* every GET carries timeout=self.timeout, so an attempt that has been sent
\* comes to an end
GeoFairness == WF_vars(\E o \in AttemptOutcomes : GeoAttempt(o))

SpecGeoLive == SpecGeo /\ GeoFairness

(***************************************************************************)
(* The script: user interactions, each followed by a script run            *)
(***************************************************************************)
geoFrame == UNCHANGED geoVars

\* a script that sets has_results to False at the start of every run
storedFrameResetsFlag ==
    has_results' = FALSE /\ UNCHANGED <<api_result, sidebar_snapshot>>

\* api_result, has_results and sidebar_snapshot are assigned only after a
\* parsed response (app.py:104-106); nothing else in a run touches them
storedFrame == UNCHANGED <<api_result, has_results, sidebar_snapshot>>

\* state of the session after the first script run of a new session
AppInit ==
    /\ app_pc = "idle"
    /\ selected_location = {}
    /\ location_search_results = <<>>
    /\ last_query = {}
    /\ widgets = DefaultWidgets
    /\ clicked = FALSE
    /\ api_result = {}
    /\ has_results = FALSE
    /\ sidebar_snapshot = {}
    /\ page = BlankPage
    /\ run_posts = 0
    /\ payload = NoPayload
    /\ debug \in BOOLEAN

Init ==
    /\ AppInit
    /\ GeoIdle
    /\ ChartIdle
    /\ ParseIdle

\* a script that takes the next interaction at any time
ScriptFreeAlways == TRUE

\* a session runs its script in one thread, and search_locations and
\* assess_activity block it: the next interaction is taken up when no run
\* is under way
ScriptFree == app_pc = "idle"

\* the session's location state as the location section sees it
LocationState(w) ==
    [sel |-> selected_location, res |-> location_search_results,
     lq |-> last_query, q |-> w.location_search]

\* a widget that a run does not render loses its state: the search box is
\* rendered only while no location is selected
Settle(s) == [s EXCEPT !.q = IF s.sel # {} THEN "" ELSE s.q,
                       !.rerun = FALSE, !.search = FALSE]

\* the run from the end of the location section on: the rest of the
\* sidebar, the Assess Activity handler up to the request, the results
FinishRun(s, w, click) ==
    LET data == SidebarData(s.sel, w, click)
        v == Validate(data)
    IN  /\ selected_location' = s.sel
        /\ location_search_results' = s.res
        /\ last_query' = s.lq
        /\ widgets' = [w EXCEPT !.location_search = s.q]
        /\ clicked' = click
        /\ IF v = "post"
           THEN /\ app_pc' = "assessing"
                /\ run_posts' = 1
                /\ payload' = HandlerPayload(data)
                /\ page' = [BlankPage EXCEPT !.warning = NoLocationsWarning(s)]
           ELSE /\ app_pc' = "idle"
                /\ run_posts' = 0
                /\ payload' = NoPayload
                /\ page' = [error |-> IF v = "none" THEN "" ELSE v,
                            exc |-> "",
                            details |-> FALSE,
                            results |-> v = "none"
                                /\ ShowsResults(has_results, api_result),
                            warning |-> NoLocationsWarning(s)]

\* one user interaction and the script run it triggers, up to the end of
\* the run, the search or the request: w is the widgets after the
\* interaction, key the selectbox's choice, change and click the buttons;
\* end_clamped says that max(prev_end, start_date) was start_date and not
\* the end date of the run before
Rerun(w0, key, change, click) ==
    /\ ScriptFree
    /\ LET w == [w0 EXCEPT !.end_clamped =
                                widgets.end_date < w0.start_date]
           s0 == LocationState(w)
       IN  IF LocationSection(s0, change).search
           THEN /\ Begin("search_locations", s0.q, 5)
                /\ app_pc' = "searching"
                /\ widgets' = w
                /\ clicked' = click
                /\ page' = BlankPage
                /\ run_posts' = 0
                /\ payload' = NoPayload
                /\ UNCHANGED <<selected_location, location_search_results,
                               last_query>>
           ELSE LET b == LocationSectionNoSearch(s0, key, change)
                    c == IF b.rerun
                         THEN LocationSectionNoSearch(Settle(b), {}, FALSE)
                         ELSE b
                IN  /\ FinishRun(Settle(c), w, click /\ ~b.rerun)
                    /\ geoFrame
    /\ storedFrame
    /\ UNCHANGED <<debug, parseVars, chartVars>>

TypeQuery(q) ==
    /\ selected_location = {}
    /\ q # widgets.location_search
    /\ Rerun([widgets EXCEPT !.location_search = q], {}, FALSE, FALSE)

\* the user picks a location in the selectbox
SelectLocation(name) ==
    /\ selected_location = {}
    /\ Len(widgets.location_search) >= 2
    /\ name \in OptionNames(location_search_results)
    /\ Rerun(widgets, {name}, FALSE, FALSE)

ChangeLocation ==
    /\ selected_location # {}
    /\ Rerun(widgets, {}, TRUE, FALSE)

\* end_default = max(prev_end, start_date)
PickStartDate(d) ==
    /\ d # widgets.start_date
    /\ Rerun([widgets EXCEPT !.start_date = d,
                             !.end_date = IntMax(@, d)], {}, FALSE, FALSE)

PickStartTime(h) ==
    /\ h # widgets.start_time
    /\ Rerun([widgets EXCEPT !.start_time = h], {}, FALSE, FALSE)

\* min_value=start_date
PickEndDate(d) ==
    /\ d # widgets.end_date
    /\ d >= widgets.start_date
    /\ Rerun([widgets EXCEPT !.end_date = d], {}, FALSE, FALSE)

PickEndTime(h) ==
    /\ h # widgets.end_time
    /\ Rerun([widgets EXCEPT !.end_time = h], {}, FALSE, FALSE)

TypeCustomActivity(a) ==
    /\ a # widgets.custom_activity
    /\ Rerun([widgets EXCEPT !.custom_activity = a], {}, FALSE, FALSE)

ClickAssess ==
    /\ ScriptFree
    /\ Rerun(widgets, {}, FALSE, TRUE)

\* one GET of the search the sidebar is waiting for
SearchAttempt(outcome) ==
    /\ app_pc = "searching"
    /\ Attempt(outcome)
    /\ UNCHANGED <<appVars, parseVars, chartVars>>

\* search_locations has returned: the sidebar stores the results and the
\* query, and the run goes on
SearchReturned ==
    /\ app_pc = "searching"
    /\ geo_pc = "returned"
    /\ IF geo_ret.status = "ok"
       THEN LET s1 == [sel |-> selected_location, res |-> geo_ret.value,
                       lq |-> {widgets.location_search},
                       q |-> widgets.location_search,
                       search |-> FALSE, rerun |-> FALSE]
            IN  FinishRun(AfterLocations(s1, geo_ret.value, {}), widgets,
                          clicked)
       ELSE /\ app_pc' = "idle"
            /\ page' = [BlankPage EXCEPT !.error = "uncaught"]
            /\ UNCHANGED <<selected_location, location_search_results,
                           last_query, widgets, clicked, run_posts,
                           payload>>
    /\ geoFrame
    /\ storedFrame
    /\ UNCHANGED <<debug, parseVars, chartVars>>

\* session.post has returned or raised: the handler from there on, and the
\* results section
AssessReturned(outcome) ==
    /\ app_pc' = "idle"
    /\ LET data == IF outcome.status = "ok"
                   THEN parse_assessment_response(outcome.value)
                   ELSE outcome
       IN  IF data.status = "ok"
           THEN /\ api_result' = {data.value}
                /\ has_results' = TRUE
                /\ sidebar_snapshot' =
                       {SidebarData(selected_location, widgets, clicked)}
                /\ clicked' = FALSE
                /\ page' = [BlankPage EXCEPT !.results = TRUE]
           ELSE /\ page' =
                    [error |-> HandlerError(data.exc),
                     exc |-> data.exc,
                     details |-> ErrorDetails(data.exc, debug),
                     results |-> ShowsResults(has_results, api_result),
                     warning |-> FALSE]
                /\ UNCHANGED <<api_result, has_results, sidebar_snapshot,
                               clicked>>
    /\ UNCHANGED <<selected_location, location_search_results, last_query,
                   widgets, run_posts, payload, debug>>
    /\ geoFrame
    /\ UNCHANGED <<parseVars, chartVars>>

\* one attempt of the POST of assess_activity ends: the adapter sends the
\* request again, or session.post returns (or raises)
AssessResponse(outcome) ==
    /\ app_pc = "assessing"
    /\ IF PostRetried(outcome, run_posts)
       THEN /\ run_posts' = run_posts + 1
            /\ UNCHANGED <<app_pc, selected_location,
                           location_search_results, last_query, widgets,
                           clicked, page, payload, debug>>
            /\ storedFrame
            /\ geoFrame
            /\ UNCHANGED <<parseVars, chartVars>>
       ELSE AssessReturned(outcome)

Next ==
    \/ \E q \in AppQueries : TypeQuery(q)
    \/ \E name \in {"", "Mt. Apo"} : SelectLocation(name)
    \/ ChangeLocation
    \/ \E d \in 0..MaxDay : PickStartDate(d)
    \/ \E h \in Hours : PickStartTime(h)
    \/ \E d \in 0..MaxDay : PickEndDate(d)
    \/ \E h \in Hours : PickEndTime(h)
    \/ \E a \in CustomActivities : TypeCustomActivity(a)
    \/ ClickAssess
    \/ \E o \in AppAttemptOutcomes : SearchAttempt(o)
    \/ SearchReturned
    \/ \E o \in AssessOutcomes : AssessResponse(o)

Spec == Init /\ [][Next]_vars

(***************************************************************************)
(* Claims about response normalisation                                     *)
(***************************************************************************)

\* C1: parse_assessment_response never fails and always returns an object
\* that has every key of the flattened shape, whatever JSON object it is
\* given.
C1_NeverFailsCompleteShape ==
    parse_pc = "done" =>
        /\ parsed.status = "ok"
        /\ DOMAIN parsed.value = FlatKeys

\* a key of a nested object of the source is missing when the nested object
\* is missing or does not hold the key
SrcMissing(nested, key) == nested = {} \/ Some(nested).d[key] = {}

SrcValue(nested, key) == Some(Some(nested).d[key])

TakesSourceOrDefault(out, nested, key, default) ==
    IF SrcMissing(nested, key) THEN out = default
    ELSE out = SrcValue(nested, key)

TopTakesSourceOrDefault(out, field, default) ==
    IF field = {} THEN out = default ELSE out = Some(field)

\* C2: in the output of parse_assessment_response every field missing from
\* the source has its safe default and every field present in the source
\* has exactly the source value.
C2_DefaultsAndPassThrough ==
    (parse_pc = "done" /\ parsed.status = "ok") =>
        LET o == parsed.value
            a == result.assessment
            l == result.location
        IN  /\ TakesSourceOrDefault(o.suitable, a, "suitable", FALSE)
            /\ TakesSourceOrDefault(o.risk_level, a, "risk_level", "unknown")
            /\ TakesSourceOrDefault(o.confidence, a, "confidence", "unknown")
            /\ TakesSourceOrDefault(o.concerns, a, "concerns", <<>>)
            /\ TakesSourceOrDefault(o.recommendations, a,
                                    "recommendations", <<>>)
            /\ TakesSourceOrDefault(o.alternative_times, a,
                                    "alternative_times", <<>>)
            /\ TakesSourceOrDefault(o.location_name, l, "name", "Unknown")
            /\ TakesSourceOrDefault(o.coordinates, l, "coordinates",
                                    JDict(NoCoordinates))
            /\ TakesSourceOrDefault(o.interpolation_used, l,
                                    "interpolation_used", FALSE)
            /\ TakesSourceOrDefault(o.location_confidence, l,
                                    "confidence", "unknown")
            /\ TakesSourceOrDefault(o.confidence_message, l,
                                    "confidence_message", "")
            /\ TopTakesSourceOrDefault(o.forecast_summary,
                                       result.forecast_summary,
                                       JDict(NoForecastSummary))
            /\ TopTakesSourceOrDefault(o.chart_data, result.chart_data,
                                       JDict(NoChartData))

\* a response without `assessment` and with a partly filled `location` has
\* been normalised
C2_Witness ==
    /\ parse_pc = "done"
    /\ parsed.status = "ok"
    /\ result.assessment = {}
    /\ result.location # {}
    /\ ~SrcMissing(result.location, "name")
    /\ SrcMissing(result.location, "coordinates")
    /\ result.chart_data = {}

(***************************************************************************)
(* Claims about the forecast charts and the summary statistics             *)
(***************************************************************************)
NonNegativeParams == {"precipitation", "humidity"}

ZeroFloorParams == {"precipitation", "wind"}

InputForecasts == ForecastsOf(chart_data)

InputEntry(p) ==
    InputForecasts[CHOOSE i \in 1..Len(InputForecasts) :
                       InputForecasts[i].param = p]

ChartsShown == IF rendered.status = "ok" THEN rendered.charts ELSE <<>>

Clamped(v) == IF v < 0 THEN 0 ELSE v

ClampedValues(points) ==
    [i \in 1..Len(points) |-> Clamped(points[i].value)]

\* C3: every plotted value of a precipitation or humidity series is 0 when
\* the input value is negative and the input value otherwise.
C3_PlottedValuesClamped ==
    \A k \in 1..Len(ChartsShown) :
        LET c == ChartsShown[k]
        IN  c.param \in NonNegativeParams =>
                c.y = ClampedValues(InputEntry(c.param).points)

\* C4: the statistics get_forecast_summary_stats reports for a precipitation
\* or humidity series are those of the clamped values, so min is never
\* negative.
C4_StatsOverClampedValues ==
    summary.status = "ok" =>
        \A p \in DOMAIN summary.value \cap NonNegativeParams :
            LET v == ClampedValues(InputEntry(p).points)
                s == summary.value[p]
            IN  /\ s.min = SeqMin(v)
                /\ s.max = SeqMax(v)
                /\ s.avg = [num |-> SeqSum(v), den |-> Len(v)]
                /\ s.min >= 0

\* a list of data points that carry a timestamp and a value, every timestamp
\* a date-time
WellFormedSeries(e) ==
    /\ e.kind = "list"
    /\ e.points # <<>>
    /\ {"timestamp", "value"} \subseteq e.cols
    /\ \A i \in 1..Len(e.points) :
           to_datetime(e.points[i].timestamp).status = "ok"

HasNegative(e) == \E i \in 1..Len(e.points) : e.points[i].value < 0

PassedToCharting(e) ==
    \/ rendered.selected = {}
    \/ Some(rendered.selected) = {}
    \/ e.param \in Some(rendered.selected)

\* C5: a precipitation or humidity series with negative values is plotted
\* point for point: one chart, as many points as the input, in the input's
\* timestamp order, and no warning about it.
C5_NoPointDroppedNoWarning ==
    rendered.status = "ok" =>
        \A j \in 1..Len(InputForecasts) :
            LET e == InputForecasts[j]
            IN  (/\ e.param \in NonNegativeParams
                 /\ WellFormedSeries(e)
                 /\ HasNegative(e)
                 /\ PassedToCharting(e)) =>
                    /\ Cardinality({k \in 1..Len(ChartsShown) :
                           ChartsShown[k].param = e.param}) = 1
                    /\ \A k \in 1..Len(ChartsShown) :
                           ChartsShown[k].param = e.param =>
                               /\ Len(ChartsShown[k].x) = Len(e.points)
                               /\ Len(ChartsShown[k].y) = Len(e.points)
                               /\ \A i \in 1..Len(e.points) :
                                      ChartsShown[k].x[i] =
                                          to_datetime(
                                              e.points[i].timestamp).value
                    /\ \A w \in 1..Len(rendered.warnings) :
                           rendered.warnings[w] # e.param

\* a precipitation series of two points, the later timestamp first and a
\* negative value among them, has been charted
C5_Witness ==
    /\ rendered.status = "ok"
    /\ \E j \in 1..Len(InputForecasts) :
           LET e == InputForecasts[j]
           IN  /\ e.param = "precipitation"
               /\ WellFormedSeries(e)
               /\ HasNegative(e)
               /\ Len(e.points) = 2
               /\ e.points[1].timestamp = "2025-06-01T10:00"
               /\ e.points[2].timestamp = "2025-06-01T09:00"
               /\ \E k \in 1..Len(ChartsShown) :
                      ChartsShown[k].param = "precipitation"

\* every y drawn on a chart: the main trace and the uncertainty band
PlottedYs(c) == IF c.band = {} THEN c.y ELSE c.y \o Some(c.band).y

\* C6: the vertical axis of every precipitation or wind chart starts at 0 or
\* above and ends at or above the largest plotted value (tenths).
C6_AxisFloorAndCeiling ==
    \A k \in 1..Len(ChartsShown) :
        LET c == ChartsShown[k]
        IN  c.param \in ZeroFloorParams =>
                /\ c.shown_range[1] >= 0
                /\ c.shown_range[2] >= 10 * SeqMax(PlottedYs(c))

\* C7: the vertical axis of every precipitation or wind chart is set to run
\* from 0 to 1.1 times the maximum of the values and the upper confidence
\* bounds (tenths).
C7_AxisSetToZeroAndMaxTimes1_1 ==
    \A k \in 1..Len(ChartsShown) :
        LET c == ChartsShown[k]
            e == InputEntry(c.param)
            observed == IF "upper" \in e.cols
                        THEN Column(e.points, "value")
                                 \o Column(e.points, "upper")
                        ELSE Column(e.points, "value")
        IN  c.param \in ZeroFloorParams =>
                c.yaxis_range = {<<0, 11 * SeqMax(observed)>>}

(***************************************************************************)
(* Claims about the geocoding lookup                                       *)
(***************************************************************************)
Returned == geo_pc = "returned" /\ geo_response.kind # "none"

EmptyReturn ==
    geo_ret = Ok(IF geo_call.fn = "get_location" THEN {} ELSE <<>>)

\* C9: when the geocoder's final response has status 403 or 429,
\* search_locations returns an empty list and raises nothing, for every
\* query of at least 2 characters.
C9_SoftFailureReturnsEmptyList ==
    (/\ Returned
     /\ geo_call.fn = "search_locations"
     /\ Len(geo_call.query) >= 2
     /\ geo_response.kind = "response"
     /\ geo_response.status \in {403, 429}) =>
        /\ geo_ret.status = "ok"
        /\ geo_ret.value = <<>>

\* search_locations has returned after a final 429 that followed the retries
C9_Witness ==
    /\ Returned
    /\ geo_call.fn = "search_locations"
    /\ geo_call.query = "Mt"
    /\ geo_response.kind = "response"
    /\ geo_response.status = 429
    /\ geo_attempts = RetryTotal + 1
    /\ geo_ret = Ok(<<>>)

\* an entry that cannot be made a Location: not an object, or a lat/lon that
\* is no number
MalformedEntry(entry) ==
    \/ entry.kind # "dict"
    \/ entry.lat # {} /\ Some(entry.lat) \notin {"7", "0", "125"}
    \/ entry.lon # {} /\ Some(entry.lon) \notin {"7", "0", "125"}

\* the lookup failed: timeout, connection error, non-2xx status, non-JSON
\* body or a malformed result entry
LookupFailed(got) ==
    \/ got.kind = "error"
    \/ /\ got.kind = "response"
       /\ \/ got.status < 200
          \/ got.status > 299
          \/ got.body.kind = "not_json"
          \/ \E i \in 1..Len(got.body.entries) :
                 MalformedEntry(got.body.entries[i])

\* C10: no failure of a lookup propagates out of search_locations or
\* get_location; a failed lookup yields an empty list from search_locations
\* and None from get_location.
C10_FailuresDoNotPropagate ==
    geo_pc = "returned" =>
        /\ geo_ret.status = "ok"
        /\ (Returned /\ LookupFailed(geo_response)) => EmptyReturn

\* get_location has returned None for a body whose first entry is good and
\* whose second entry has a latitude that is no number
C10_Witness ==
    /\ Returned
    /\ geo_call.fn = "get_location"
    /\ geo_response.kind = "response"
    /\ geo_response.status = 200
    /\ geo_response.body.kind = "list"
    /\ Len(geo_response.body.entries) = 2
    /\ ~MalformedEntry(geo_response.body.entries[1])
    /\ geo_response.body.entries[2].kind = "dict"
    /\ geo_response.body.entries[2].lat = {"north"}
    /\ geo_ret = Ok({})

(***************************************************************************)
(* Claims about the Assess Activity handler                                *)
(***************************************************************************)

\* the form data of the current run
RunData == SidebarData(selected_location, widgets, clicked)

ValidationErrors == {"no_location", "end_not_after_start"}

\* C8: a run in which Assess Activity is clicked with an end date/time
\* earlier than or equal to the start date/time sends no request to the
\* assessment API, ends with an error, and leaves the stored results as
\* they were.
C8_EndNotAfterStartRejected ==
    [][(clicked' /\ RunData'.end_datetime <= RunData'.start_datetime) =>
           /\ run_posts' = 0
           /\ app_pc' # "assessing"
           /\ app_pc' = "idle" => page'.error \in ValidationErrors
           /\ UNCHANGED <<api_result, has_results, sidebar_snapshot>>]_vars

\* with results of an earlier assessment stored and a location selected, a
\* click with the end equal to the start has been rejected
C8_Witness ==
    /\ app_pc = "idle"
    /\ clicked
    /\ has_results
    /\ selected_location # {}
    /\ ~NoLocationSelected(RunData)
    /\ RunData.end_datetime = RunData.start_datetime
    /\ page.error = "end_not_after_start"
    /\ run_posts = 0

\* C11: the assessment call has no retry: an accepted Assess Activity click
\* (a location is selected and the end is after the start) sends one POST,
\* and whatever that attempt comes to (a response, a timeout, an error
\* status) ends the call without a second attempt.
C11_OnePostPerAcceptedClick ==
    [][/\ (/\ app_pc # "assessing"
           /\ app_pc' # "searching"
           /\ clicked'
           /\ Validate(RunData') = "post") =>
              (app_pc' = "assessing" /\ run_posts' = 1)
       /\ app_pc = "assessing" =>
              (run_posts = 1 /\ app_pc' = "idle" /\ run_posts' = 1)]_vars

\* the POST of an accepted click has timed out, and it was the only one
C11_Witness ==
    /\ app_pc = "idle"
    /\ clicked
    /\ Validate(RunData) = "post"
    /\ page.error = "timeout"
    /\ run_posts = 1

(***************************************************************************)
(* Claims about the geocoder's retries and its status fields               *)
(***************************************************************************)

\* the step is a GET attempt that the adapter follows with another one
RetryStep ==
    /\ geo_pc = "request"
    /\ geo_pc' = "request"
    /\ geo_attempts' = geo_attempts + 1

\* C12: one search_locations call makes at most 4 GET attempts, an attempt
\* that ended in a response is retried only when the status is one of 429,
\* 500, 502, 503, 504 (never on 403 or a 2xx), and the call always ends with
\* a returned list.
C12_BoundedRetryTerminates ==
    /\ [](geo_attempts <= 4)
    /\ [][(RetryStep /\ geo_response'.kind = "response") =>
              geo_response'.status \in {429, 500, 502, 503, 504}]_vars
    /\ (geo_pc = "request") ~> (geo_pc = "returned" /\ geo_ret.status = "ok")

\* search_locations has returned [] after a 503 on the fourth attempt
C12_Witness ==
    /\ geo_pc = "returned"
    /\ geo_call.fn = "search_locations"
    /\ geo_attempts = 4
    /\ geo_response.kind = "response"
    /\ geo_response.status = 503
    /\ geo_ret = Ok(<<>>)

(***************************************************************************)
(* Claims about the errors of the assessment call                          *)
(***************************************************************************)

\* C13: a timeout or any other request exception raised by the assessment
\* call ends in an error message on the page and does not leave the
\* handler; a timeout gives the 'Request timed out' message, not the
\* 'API Error' message.
C13_RequestErrorsReported ==
    (app_pc = "idle" /\ IsRequestException(page.exc)) =>
        page.error = IF IsTimeout(page.exc) THEN "timeout" ELSE "api_error"

\* a connect timeout (a ConnectionError and a Timeout) has been reported as
\* a timeout
C13_Witness ==
    /\ app_pc = "idle"
    /\ page.exc = "ConnectTimeout"
    /\ page.error = "timeout"
    /\ run_posts = 1

\* C14: an exception of the assessment call or of the normalisation that is
\* no request exception is caught and reported with the short error
\* message, and its full detail is on the page if and only if the debug
\* flag is set.
C14_UnexpectedDetailIffDebug ==
    (app_pc = "idle" /\ page.exc # "" /\ ~IsRequestException(page.exc)) =>
        /\ page.error = "unexpected"
        /\ page.details <=> debug

\* the normalisation has failed on a null assessment with the debug flag
\* set, and the detail is on the page
C14_Witness ==
    /\ app_pc = "idle"
    /\ page.exc = "AttributeError"
    /\ page.error = "unexpected"
    /\ debug
    /\ page.details

(***************************************************************************)
(* Claims about the requests of one session                                *)
(***************************************************************************)
GetInFlight == geo_pc = "request"

PostInFlight == app_pc = "assessing"

\* C15: in one session there are never two HTTP requests in flight at the
\* same time: while the geocoding lookup or the assessment call is
\* outstanding no other request is started and no further interaction is
\* taken up, the call runs to its end within the script run.
C15_OneRequestAtATime ==
    /\ [](~(GetInFlight /\ PostInFlight))
    /\ [][/\ GetInFlight => (app_pc = "searching" /\ ~PostInFlight')
          /\ PostInFlight => ~GetInFlight'
          /\ (GetInFlight \/ PostInFlight) =>
                 /\ UNCHANGED <<widgets, selected_location>>
                 /\ clicked' => clicked]_vars

\* the POST is in flight after a lookup of this session has returned
C15_Witness ==
    /\ PostInFlight
    /\ geo_pc = "returned"
    /\ geo_attempts = 1
    /\ run_posts = 1

(***************************************************************************)
(* Claims about the request of the assessment                              *)
(***************************************************************************)

\* a chosen option without its emoji: the words after the first
WithoutEmoji(option) == SubSeq(option, 2, Len(option))

\* C16: the payload POSTed to /api/v1/assess-activity has exactly the
\* fields location_name, latitude, longitude, start_time, end_time and
\* activity_type: the selected location's name and coordinates, the
\* submitted start and end date-times as ISO-8601 strings, and the submitted
\* activity label (the custom activity when one is entered, otherwise the
\* chosen option without its emoji), unchanged.
C16_PayloadIsTheSubmittedForm ==
    PostInFlight =>
        /\ payload.sent
        /\ selected_location # {}
        /\ DOMAIN payload.json =
               {"location_name", "latitude", "longitude", "start_time",
                "end_time", "activity_type"}
        /\ payload.json.location_name = Some(selected_location).display_name
        /\ payload.json.latitude = Some(selected_location).latitude
        /\ payload.json.longitude = Some(selected_location).longitude
        /\ payload.json.start_time =
               <<widgets.start_date, "T", widgets.start_time>>
        /\ payload.json.end_time =
               <<widgets.end_date, "T", widgets.end_time>>
        /\ payload.json.activity_type =
               IF widgets.custom_activity # <<>> THEN widgets.custom_activity
               ELSE WithoutEmoji(widgets.activity_select)

\* a hike from 17:00 today to 9:00 tomorrow at Mt. Apo is being assessed
C16_Witness ==
    /\ PostInFlight
    /\ payload.sent
    /\ payload.json.location_name = "Mt. Apo"
    /\ payload.json.latitude = 7
    /\ payload.json.start_time = <<0, "T", 17>>
    /\ payload.json.end_time = <<1, "T", 9>>
    /\ payload.json.activity_type = <<"Hiking">>

(***************************************************************************)
(* Claims about the analysis card                                          *)
(***************************************************************************)
Elements(q) == {q[i] : i \in 1..Len(q)}

\* the card of the results on the page
ShownCard == render_ai_analysis_card(CardArguments(Some(api_result)))

\* C17: for a successful response of the documented structure (concerns,
\* recommendations and alternative_times inside assessment) the analysis
\* card shows every concern, the recommendation text and every alternative
\* time of the response.
C17_CardShowsAssessment ==
    (page.results /\ ShowsResults(has_results, api_result)) =>
        LET assessment == Some(Some(api_result).raw.assessment).d
        IN  /\ Elements(Get(assessment.concerns, <<>>)) \subseteq
                   ShownCard.concerns
            /\ Elements(Get(assessment.recommendations, <<>>)) \subseteq
                   ShownCard.recommendation
            /\ Elements(Get(assessment.alternative_times, <<>>)) \subseteq
                   ShownCard.alternatives

(***************************************************************************)
(* Claims about the sidebar                                                *)
(***************************************************************************)

\* C18: a run issues a geocoding search only if the query has at least 2
\* characters and differs from the last searched query; while the query
\* stays the same the runs after the one that searched send no request and
\* use the stored results.
C18_SearchOnlyOnNewQuery ==
    /\ []((app_pc = "idle" /\ selected_location = {}
              /\ Len(widgets.location_search) >= 2) =>
               last_query = {widgets.location_search})
    /\ [][/\ (app_pc = "idle" /\ app_pc' = "searching") =>
                 /\ Len(widgets'.location_search) >= 2
                 /\ last_query # {widgets'.location_search}
                 /\ geo_call'.query = widgets'.location_search
          /\ (app_pc = "idle" /\ last_query = {widgets'.location_search}) =>
                 /\ app_pc' # "searching"
                 /\ UNCHANGED <<geo_pc, geo_call, geo_attempts>>
                 /\ (selected_location' = {}
                       /\ Len(widgets'.location_search) >= 2) =>
                        UNCHANGED location_search_results]_vars

\* Assess Activity has been clicked with the query "Mt" still in the box:
\* the run has used the stored results of the one search for "Mt"
C18_Witness ==
    /\ app_pc = "idle"
    /\ clicked
    /\ widgets.location_search = "Mt"
    /\ last_query = {"Mt"}
    /\ location_search_results # <<>>
    /\ geo_call.query = "Mt"
    /\ geo_attempts = 1
    /\ page.error = "no_location"

\* C19: after any sequence of start-date and end-date selections the end
\* date of the form is never earlier than the start date: an end date chosen
\* earlier that falls before a newly chosen start date is moved up to the
\* start date (and is kept otherwise).
C19_EndDateNotBeforeStartDate ==
    /\ [](widgets.end_date >= widgets.start_date)
    /\ [][widgets'.start_date # widgets.start_date =>
              widgets'.end_date =
                  IF widgets.end_date < widgets'.start_date
                  THEN widgets'.start_date ELSE widgets.end_date]_vars

\* the end date was before the last day when the start date was moved to
\* it, and the run has moved the end date to that day too
C19_Witness ==
    /\ app_pc = "idle"
    /\ widgets.end_clamped
    /\ widgets.start_date = MaxDay
    /\ widgets.end_date = MaxDay

(***************************************************************************)
(* Claims about last_status and last_error                                 *)
(***************************************************************************)

\* the lookup got a 2xx response with a list of well-formed entries
LookupSucceeded(got) ==
    /\ got.kind = "response"
    /\ got.body.kind = "list"
    /\ ~LookupFailed(got)

\* C20: after any search_locations call that sent a request, last_status
\* is the status of that call's response and last_error describes that
\* call's failure: it is None when the call succeeded and set when it
\* failed, whatever earlier calls came to.
C20_StatusFieldsTrackLastCall ==
    Returned =>
        /\ geo_response.kind = "response" =>
               last_status = {geo_response.status}
        /\ LookupSucceeded(geo_response) => last_error = {}
        /\ LookupFailed(geo_response) => last_error # {}

(***************************************************************************)
(* Claims about the location check and the stored results                  *)
(***************************************************************************)

\* C21: an Assess Activity click is rejected with the 'select a location
\* first' error, before any request, exactly when no location is selected:
\* a click without a selection never reaches the API, and a click with a
\* selection is never rejected by this check, whatever the coordinates of
\* the location (latitude 0 included).
C21_RejectedIffNoLocation ==
    (clicked /\ app_pc # "searching") =>
        /\ page.error = "no_location" <=> selected_location = {}
        /\ selected_location = {} => run_posts = 0

\* the step ends a run of an Assess Activity click with an error: a
\* validation error, a timeout, a request exception or an unexpected
\* exception
EndsFailedClick == app_pc' = "idle" /\ clicked' /\ page'.error # ""

\* C22: a failed or rejected assessment leaves the session's api_result,
\* has_results and sidebar_snapshot unchanged, so the results of an earlier
\* successful assessment remain the ones displayed.
C22_FailureKeepsResults ==
    [][EndsFailedClick =>
           /\ UNCHANGED <<api_result, has_results, sidebar_snapshot>>
           /\ page'.results <=> ShowsResults(has_results, api_result)]_vars

\* the step is session.post returning a response that the script
\* normalises without an exception
SuccessfulResponse == app_pc = "assessing" /\ app_pc' = "idle" /\ page'.error = ""

\* the normalisations of the responses the assessment API can give
Normalizations ==
    {parse_assessment_response(r).value :
        r \in {x \in AppResponses : parse_assessment_response(x).status = "ok"}}

\* the stored result is the normalisation of the response it keeps as raw,
\* and the stored snapshot is a form that passed the validation
StoredIsNormalized ==
    has_results =>
        /\ api_result # {} /\ sidebar_snapshot # {}
        /\ Some(api_result) \in Normalizations
        /\ parse_assessment_response(Some(api_result).raw) = Ok(Some(api_result))
        /\ Validate(Some(sidebar_snapshot)) = "post"

\* a successful response stores its normalisation and the form whose
\* request it answers; no other step changes what is stored
StoredBySuccessOnly ==
    IF SuccessfulResponse
    THEN /\ has_results'
         /\ api_result' \subseteq Normalizations /\ api_result' # {}
         /\ payload.sent /\ sidebar_snapshot' # {}
         /\ HandlerPayload(Some(sidebar_snapshot')) = payload
         /\ sidebar_snapshot' = {RunData}
    ELSE UNCHANGED <<api_result, has_results, sidebar_snapshot>>

ShowsLocationsForQuery ==
    /\ app_pc = "idle" /\ selected_location = {}
    /\ Len(widgets.location_search) >= 2
    /\ last_query = {widgets.location_search}

\* C24: whenever the sidebar shows location results (or the "No locations
\* found" warning) for a query of at least 2 characters and last_query
\* equals the current query, location_search_results is the list the
\* geocoder returned for that query, also after the query was shortened
\* below 2 characters and typed again.
C24_ResultsAreThoseOfTheQuery ==
    ShowsLocationsForQuery =>
        /\ geo_call.query = widgets.location_search
        /\ geo_ret.status = "ok"
        /\ location_search_results = geo_ret.value

====
